---- MODULE Spec2Model ----
(***************************************************************************)
(* JoystickRC4DiddyBorg.py: UDP server that turns 18-byte PPM frames into  *)
(* two ThunderBorg motor levels.  The model follows the script from line   *)
(* 102 (the try block) to the end of the finally block.                    *)
(*                                                                         *)
(* Floating-point values are kept as exact fractions:                      *)
(*   leftRight, upDown      in units of 1/AxisDen                          *)
(*   driveLeft, driveRight  in units of 1/DriveDen                         *)
(*   maxPower               in units of 1/PowerDen                         *)
(*   slowFactor             in units of 1/SlowDen                          *)
(*   motor1, motor2         in units of 1/(DriveDen * PowerDen)            *)
(* Every product and quotient the script forms on the modelled inputs is   *)
(* exact in these units.                                                   *)
(***************************************************************************)
EXTENDS Integers, Sequences, FiniteSets, TLC

VARIABLES pc, exc, data, addr, hadEvent, ppmFrame, leftRight, upDown,
          driveLeft, driveRight, ledBatteryMode, motor1, motor2,
          tbFailsafe, tbShowBattery, tbLeds, sent, calls, finallyCalls,
          status, prevStatus

vars == <<pc, exc, data, addr, hadEvent, ppmFrame, leftRight, upDown,
          driveLeft, driveRight, ledBatteryMode, motor1, motor2,
          tbFailsafe, tbShowBattery, tbLeds, sent, calls, finallyCalls,
          status, prevStatus>>

pyVars == <<ppmFrame, leftRight, upDown, driveLeft, driveRight>>
tbVars == <<motor1, motor2, tbFailsafe, tbShowBattery, tbLeds>>
ghostVars == <<status, prevStatus>>

\* ---------------------------------------------------------------- bounds
\* Largest raw channel value fed to the model (the wire format allows 65535).
MaxChannel == 4000

\* ------------------------------------------------------- number formats
AxisDen == 1000
DriveDen == 1000000
PowerDen == 20
SlowDen == 10

Abs(x) == IF x < 0 THEN -x ELSE x

\* ------------------------------------------------------------- settings
axisUpDown == 1
axisUpDownInverted == FALSE
axisLeftRight == 2
axisLeftRightInverted == FALSE
\* slowFactor = 0.5, in units of 1/SlowDen
slowFactor == 5
\* voltages in hundredths of a volt: 12.0 and 12.0 * 0.95
voltageIn == 1200
voltageOut == (1200 * 95) \div 100
switchOnMin == 1750
buttonFastTurn == 3
buttonSlow == 4
tx_port == 12000

\* maxPower, in units of 1/PowerDen
maxPower ==
    IF voltageOut > voltageIn THEN PowerDen
    ELSE (voltageOut * PowerDen) \div voltageIn

\* --------------------------------------------------------- wire format
\* struct.pack('xxHHHHHHHH', ...) on a little-endian host, with the two pad
\* bytes given by hdr.
RECURSIVE PackWords(_)
PackWords(ws) ==
    IF ws = <<>> THEN <<>>
    ELSE <<Head(ws) % 256, Head(ws) \div 256>> \o PackWords(Tail(ws))

Pack(hdr, ws) == hdr \o PackWords(ws)

\* struct.calcsize('xxHHHHHHHH')
FrameSize == 2 + 8 * 2

\* struct.unpack('xxHHHHHHHH', data): element i (Python index i-1) is the
\* 16-bit value at bytes 2i+1, 2i+2 (1-based), low byte first.
Unpack(d) == [i \in 1..8 |-> d[2 * i + 1] + 256 * d[2 * i + 2]]

\* buttonPushed(channelNumber): ppmFrame[channelNumber-1] > switchOnMin
\* (Python index channelNumber-1 is TLA+ index channelNumber).
buttonPushed(frame, channelNumber) == frame[channelNumber] > switchOnMin

\* AxisValue with the centre taken at 1000 instead of 1500
AxisValueOffCentre(raw, inverted) ==
    IF inverted THEN ((1000 - raw) * AxisDen) \div 500
    ELSE ((raw - 1000) * AxisDen) \div 500

\* (float(raw) - 1500) / 500, or (-float(raw) + 1500) / 500 when inverted
AxisValue(raw, inverted) ==
    IF inverted THEN ((1500 - raw) * AxisDen) \div 500
    ELSE ((raw - 1500) * AxisDen) \div 500

\* lines 134-137: leftRight is read from ppmFrame[0]
ReadLeftRight(frame) == AxisValue(frame[1], axisLeftRightInverted)

\* lines 138-141: upDown is read from ppmFrame[1]
ReadUpDown(frame) == AxisValue(frame[2], axisUpDownInverted)

\* lines 144-145: leftRight *= 0.5 unless the fast-turn button is pushed
SteeringSpeed(frame, lr) ==
    IF ~buttonPushed(frame, buttonFastTurn) THEN lr \div 2 ELSE lr

\* Mix with the steering weighted 4.0 instead of 2.0
MixSteep(drive, lr) == (drive \div AxisDen) * (AxisDen + 4 * lr)

\* driveX *= 1.0 + (2.0 * lr)   (lines 152, 155 with lr negated)
Mix(drive, lr) == (drive \div AxisDen) * (AxisDen + 2 * lr)

\* lines 148-152
MixLeft(ud, lr) ==
    LET base == (-ud) * (DriveDen \div AxisDen)
    IN  IF lr < -(AxisDen \div 20) THEN Mix(base, lr) ELSE base

\* MixRight with the right-turn test against 0 instead of 0.05
MixRightNoDeadZone(ud, lr) ==
    LET base == (-ud) * (DriveDen \div AxisDen)
    IN  IF lr < -(AxisDen \div 20) THEN base
        ELSE IF lr > 0 THEN Mix(base, -lr)
        ELSE base

\* lines 149-155
MixRight(ud, lr) ==
    LET base == (-ud) * (DriveDen \div AxisDen)
    IN  IF lr < -(AxisDen \div 20) THEN base
        ELSE IF lr > AxisDen \div 20 THEN Mix(base, -lr)
        ELSE base

\* lines 158-160: drive *= slowFactor while the slow button is pushed
SlowDown(frame, drive) ==
    IF buttonPushed(frame, buttonSlow) THEN (drive * slowFactor) \div SlowDen
    ELSE drive

\* ------------------------------------------------------------- inputs
QueryId == <<63>>
QueryVersion == <<48>>
ReplyId == "T=Diddyborg"
ReplyVersion == "1.0"

\* raw values of the first and of the second channel
Channel1Raw == {1000, 1250, 1450, 1550, 2000, MaxChannel}
Channel2Raw == {0, 1000, 2000}
ButtonRaw == {switchOnMin, switchOnMin + 1}
Headers == {<<0, 0>>}

Frames ==
    {<<a, b, c, d, 1500, 1500, 1500, 1500>> :
        a \in Channel1Raw, b \in Channel2Raw,
        c \in ButtonRaw, d \in ButtonRaw}

ControlPayloads == {Pack(h, f) : h \in Headers, f \in Frames}

\* payloads that are neither a query nor 18 bytes long
ShortFrame == SubSeq(Pack(<<0, 0>>, <<1000, 1000, 1000, 1000, 1500, 1500, 1500, 1500>>), 1, 17)
OddPayloads == {<<>>, <<49>>, <<63, 63>>, ShortFrame, ShortFrame \o <<0, 0>>}

Payloads == {QueryId, QueryVersion} \cup ControlPayloads \cup OddPayloads

Senders == {<<"192.168.4.2", 50000>>, <<"192.168.4.3", 50001>>}

LoopPcs == {"recv", "dispatch", "process", "motor1", "motor2", "fault",
            "ledFault1", "ledFault2", "ledNormal"}

\* ---------------------------------------------------------------- Init
\* State at line 111, after the board setup of lines 52-109.
Init ==
    /\ pc = "recv"
    /\ exc = "none"
    /\ data = <<>>
    /\ addr = <<"", 0>>
    /\ hadEvent = FALSE
    /\ ppmFrame = <<>>
    /\ leftRight = 0
    /\ upDown = 0
    /\ driveLeft = 0
    /\ driveRight = 0
    /\ ledBatteryMode = TRUE
    /\ motor1 = 0
    /\ motor2 = 0
    /\ tbFailsafe = TRUE
    /\ tbShowBattery = TRUE
    /\ tbLeds = <<0, 0, 1>>
    /\ sent = <<>>
    /\ calls = <<>>
    /\ finallyCalls = <<>>
    /\ status = "Normal"
    /\ prevStatus = "Normal"

\* -------------------------------------------------------------- actions
\* lines 113-114: hadEvent = False; (data, addr) = UDPSock.recvfrom(bufsize)
Receive ==
    /\ pc = "recv"
    /\ \E d \in Payloads, a \in Senders :
        /\ data' = d
        /\ addr' = a
    /\ hadEvent' = FALSE
    /\ sent' = <<>>
    /\ calls' = <<>>
    /\ pc' = "dispatch"
    /\ UNCHANGED <<exc, pyVars, ledBatteryMode, tbVars, finallyCalls, ghostVars>>

\* Dispatch with the version query compared against the str '0', which no
\* bytes payload equals
DispatchStrCompare ==
    /\ pc = "dispatch"
    /\ IF data = QueryId
       THEN /\ sent' = <<[payload |-> ReplyId, to |-> <<addr[1], tx_port>>]>>
            /\ hadEvent' = FALSE
       ELSE /\ sent' = sent
            /\ hadEvent' = TRUE
    /\ pc' = IF hadEvent' THEN "process" ELSE "recv"
    /\ UNCHANGED <<exc, data, addr, pyVars, ledBatteryMode, tbVars, calls,
                   finallyCalls, ghostVars>>

\* lines 118-128
Dispatch ==
    /\ pc = "dispatch"
    /\ IF data = QueryId
       THEN /\ sent' = <<[payload |-> ReplyId, to |-> <<addr[1], tx_port>>]>>
            /\ hadEvent' = FALSE
       ELSE IF data = QueryVersion
       THEN /\ sent' = <<[payload |-> ReplyVersion, to |-> <<addr[1], tx_port>>]>>
            /\ hadEvent' = FALSE
       ELSE /\ sent' = sent
            /\ hadEvent' = TRUE
    /\ pc' = IF hadEvent' THEN "process" ELSE "recv"
    /\ UNCHANGED <<exc, data, addr, pyVars, ledBatteryMode, tbVars, calls,
                   finallyCalls, ghostVars>>

\* line 131 when len(data) differs from the struct size: struct.error is
\* raised, no handler matches, the finally block runs and the script ends.
UnpackError ==
    /\ pc = "process"
    /\ Len(data) # FrameSize
    /\ exc' = "struct.error"
    /\ pc' = "finally1"
    /\ UNCHANGED <<data, addr, hadEvent, pyVars, ledBatteryMode, tbVars, sent,
                   calls, finallyCalls, ghostVars>>

\* lines 131-160
ComputeDrive ==
    /\ pc = "process"
    /\ Len(data) = FrameSize
    /\ LET frame == Unpack(data)
           lr == SteeringSpeed(frame, ReadLeftRight(frame))
           ud == ReadUpDown(frame)
       IN  /\ ppmFrame' = frame
           /\ leftRight' = lr
           /\ upDown' = ud
           /\ driveLeft' = SlowDown(frame, MixLeft(ud, lr))
           /\ driveRight' = SlowDown(frame, MixRight(ud, lr))
    /\ pc' = "motor1"
    /\ UNCHANGED <<exc, data, addr, hadEvent, ledBatteryMode, tbVars, sent,
                   calls, finallyCalls, ghostVars>>

\* SetMotor1 that stops the left motor while a fault is displayed
SetMotor1FaultStop ==
    /\ pc = "motor1"
    /\ motor1' = IF ledBatteryMode THEN driveLeft * maxPower ELSE 0
    /\ calls' = Append(calls, "SetMotor1")
    /\ pc' = "motor2"
    /\ UNCHANGED <<exc, data, addr, hadEvent, pyVars, ledBatteryMode, motor2,
                   tbFailsafe, tbShowBattery, tbLeds, sent, finallyCalls,
                   ghostVars>>

\* line 163
SetMotor1 ==
    /\ pc = "motor1"
    /\ motor1' = driveLeft * maxPower
    /\ calls' = Append(calls, "SetMotor1")
    /\ pc' = "motor2"
    /\ UNCHANGED <<exc, data, addr, hadEvent, pyVars, ledBatteryMode, motor2,
                   tbFailsafe, tbShowBattery, tbLeds, sent, finallyCalls,
                   ghostVars>>

\* line 164
SetMotor2 ==
    /\ pc = "motor2"
    /\ motor2' = driveRight * maxPower
    /\ calls' = Append(calls, "SetMotor2")
    /\ pc' = "fault"
    /\ UNCHANGED <<exc, data, addr, hadEvent, pyVars, ledBatteryMode, motor1,
                   tbFailsafe, tbShowBattery, tbLeds, sent, finallyCalls,
                   ghostVars>>

\* lines 167-175, the tests: TB.GetDriveFault1() or TB.GetDriveFault2()
\* (the second read is skipped when the first is true), then the test of
\* ledBatteryMode.  f1, f2 are what the board reports.
\* LedBranch without the ledBatteryMode tests
LedBranchEveryCycle(fault, mode) ==
    IF fault THEN "ledFault1" ELSE "ledNormal"

LedBranch(fault, mode) ==
    IF fault THEN (IF mode THEN "ledFault1" ELSE "recv")
    ELSE (IF ~mode THEN "ledNormal" ELSE "recv")

ReadFaults ==
    /\ pc = "fault"
    /\ \E f1 \in BOOLEAN, f2 \in BOOLEAN :
        /\ calls' = IF f1 THEN Append(calls, "GetDriveFault1")
                    ELSE calls \o <<"GetDriveFault1", "GetDriveFault2">>
        /\ status' = IF f1 \/ f2 THEN "Fault" ELSE "Normal"
        /\ pc' = LedBranch(f1 \/ f2, ledBatteryMode)
    /\ prevStatus' = status
    /\ UNCHANGED <<exc, data, addr, hadEvent, pyVars, ledBatteryMode, tbVars,
                   sent, finallyCalls>>

\* line 169
LedFault1 ==
    /\ pc = "ledFault1"
    /\ tbShowBattery' = FALSE
    /\ calls' = Append(calls, "SetLedShowBattery")
    /\ pc' = "ledFault2"
    /\ UNCHANGED <<exc, data, addr, hadEvent, pyVars, ledBatteryMode, motor1,
                   motor2, tbFailsafe, tbLeds, sent, finallyCalls, ghostVars>>

\* lines 170-171
LedFault2 ==
    /\ pc = "ledFault2"
    /\ tbLeds' = <<1, 0, 1>>
    /\ ledBatteryMode' = FALSE
    /\ calls' = Append(calls, "SetLeds")
    /\ pc' = "recv"
    /\ UNCHANGED <<exc, data, addr, hadEvent, pyVars, motor1, motor2,
                   tbFailsafe, tbShowBattery, sent, finallyCalls, ghostVars>>

\* lines 174-175
LedNormal ==
    /\ pc = "ledNormal"
    /\ tbShowBattery' = TRUE
    /\ ledBatteryMode' = TRUE
    /\ calls' = Append(calls, "SetLedShowBattery")
    /\ pc' = "recv"
    /\ UNCHANGED <<exc, data, addr, hadEvent, pyVars, motor1, motor2,
                   tbFailsafe, tbLeds, sent, finallyCalls, ghostVars>>

\* Interrupt without the finally clause: the script ends at once
InterruptNoFinally ==
    /\ pc \in LoopPcs
    /\ exc' = "KeyboardInterrupt"
    /\ pc' = "exit"
    /\ UNCHANGED <<data, addr, hadEvent, pyVars, ledBatteryMode, tbVars, sent,
                   calls, finallyCalls, ghostVars>>

\* CTRL+C while the loop runs: KeyboardInterrupt is raised at the current
\* statement and control passes to the except clause (line 176).
Interrupt ==
    /\ pc \in LoopPcs
    /\ exc' = "KeyboardInterrupt"
    /\ pc' = "except"
    /\ UNCHANGED <<data, addr, hadEvent, pyVars, ledBatteryMode, tbVars, sent,
                   calls, finallyCalls, ghostVars>>

\* lines 176-178
ExceptHandler ==
    /\ pc = "except"
    /\ pc' = "finally1"
    /\ UNCHANGED <<exc, data, addr, hadEvent, pyVars, ledBatteryMode, tbVars,
                   sent, calls, finallyCalls, ghostVars>>

\* line 181
FinallyMotorsOff ==
    /\ pc = "finally1"
    /\ motor1' = 0
    /\ motor2' = 0
    /\ finallyCalls' = Append(finallyCalls, "MotorsOff")
    /\ pc' = "finally2"
    /\ UNCHANGED <<exc, data, addr, hadEvent, pyVars, ledBatteryMode,
                   tbFailsafe, tbShowBattery, tbLeds, sent, calls, ghostVars>>

\* line 182
FinallyFailsafe ==
    /\ pc = "finally2"
    /\ tbFailsafe' = FALSE
    /\ finallyCalls' = Append(finallyCalls, "SetCommsFailsafe")
    /\ pc' = "finally3"
    /\ UNCHANGED <<exc, data, addr, hadEvent, pyVars, ledBatteryMode, motor1,
                   motor2, tbShowBattery, tbLeds, sent, calls, ghostVars>>

\* line 183
FinallyShowBattery ==
    /\ pc = "finally3"
    /\ tbShowBattery' = FALSE
    /\ finallyCalls' = Append(finallyCalls, "SetLedShowBattery")
    /\ pc' = "finally4"
    /\ UNCHANGED <<exc, data, addr, hadEvent, pyVars, ledBatteryMode, motor1,
                   motor2, tbFailsafe, tbLeds, sent, calls, ghostVars>>

\* lines 184-185
FinallyLeds ==
    /\ pc = "finally4"
    /\ tbLeds' = <<0, 0, 0>>
    /\ finallyCalls' = Append(finallyCalls, "SetLeds")
    /\ pc' = "exit"
    /\ UNCHANGED <<exc, data, addr, hadEvent, pyVars, ledBatteryMode, motor1,
                   motor2, tbFailsafe, tbShowBattery, sent, calls, ghostVars>>

Finally ==
    \/ FinallyMotorsOff
    \/ FinallyFailsafe
    \/ FinallyShowBattery
    \/ FinallyLeds

Next ==
    \/ Receive
    \/ Dispatch
    \/ UnpackError
    \/ ComputeDrive
    \/ SetMotor1
    \/ SetMotor2
    \/ ReadFaults
    \/ LedFault1
    \/ LedFault2
    \/ LedNormal
    \/ Interrupt
    \/ ExceptHandler
    \/ Finally

Spec == Init /\ [][Next]_vars

\* The interpreter keeps executing the except and finally clauses once
\* entered.
LiveSpec == Spec /\ WF_vars(ExceptHandler) /\ WF_vars(Finally)

TypeOK ==
    /\ pc \in LoopPcs \cup {"except", "finally1", "finally2", "finally3", "finally4", "exit"}
    /\ exc \in {"none", "KeyboardInterrupt", "struct.error"}
    /\ hadEvent \in BOOLEAN
    /\ ledBatteryMode \in BOOLEAN
    /\ tbFailsafe \in BOOLEAN
    /\ tbShowBattery \in BOOLEAN
    /\ status \in {"Normal", "Fault"}
    /\ prevStatus \in {"Normal", "Fault"}

\* ------------------------------------------------------------ properties
InCalls(c) == \E i \in 1..Len(calls) : calls[i] = c

\* maxPower as a motor level, in units of 1/(DriveDen * PowerDen)
MotorLimit == maxPower * DriveDen

\* the channel the settings assign, normalised to units of 1/AxisDen
ConfiguredAxis(frame, channelNumber) == ((frame[channelNumber] - 1500) * AxisDen) \div 500

\* C1: in every control frame the throttle (upDown) is computed from channel
\* axisUpDown = 1 and the steering (leftRight, before the fast-turn
\* attenuation) from channel axisLeftRight = 2.
C1_ChannelAssignment ==
    (pc = "motor1") =>
        /\ upDown = ConfiguredAxis(ppmFrame, axisUpDown)
        /\ leftRight = IF buttonPushed(ppmFrame, buttonFastTurn)
                       THEN ConfiguredAxis(ppmFrame, axisLeftRight)
                       ELSE ConfiguredAxis(ppmFrame, axisLeftRight) \div 2

\* C2: whatever the channel values of a frame, both values written to the
\* motors have magnitude at most maxPower.
C2_PowerClamp ==
    /\ Abs(motor1) <= MotorLimit
    /\ Abs(motor2) <= MotorLimit

\* -throttle * (slowFactor if slow else 1) * maxPower
SymmetricDrive ==
    IF buttonPushed(ppmFrame, buttonSlow)
    THEN ((((-upDown) * (DriveDen \div AxisDen)) * slowFactor) \div SlowDen) * maxPower
    ELSE ((-upDown) * (DriveDen \div AxisDen)) * maxPower

\* both motor writes of the current frame are made and MotorsOff is not
BothWritten ==
    /\ InCalls("SetMotor1")
    /\ InCalls("SetMotor2")
    /\ finallyCalls = <<>>

\* C3: when the steering value after the fast-turn attenuation lies in
\* [-0.05, 0.05], the two motor writes are equal, and equal to
\* -throttle * (slowFactor if the slow button is pushed, else 1) * maxPower.
C3_DeadZoneSymmetric ==
    (BothWritten /\ Abs(leftRight) <= AxisDen \div 20) =>
        /\ motor1 = motor2
        /\ motor1 = SymmetricDrive

C3_Witness ==
    /\ pc = "fault"
    /\ leftRight = AxisDen \div 20
    /\ buttonPushed(ppmFrame, buttonSlow)
    /\ motor1 # 0

\* Two successive control frames with the same non-zero throttle and the
\* same slow-button state: the step from pc = "process" replaces the drive
\* values of the earlier frame by those of the later one.
SameThrottleStep ==
    /\ pc = "process"
    /\ pc' = "motor1"
    /\ ppmFrame # <<>>
    /\ upDown # 0
    /\ upDown' = upDown
    /\ buttonPushed(ppmFrame', buttonSlow) = buttonPushed(ppmFrame, buttonSlow)

\* C4 as stated: for a fixed non-zero throttle and steering values
\* s1 < s2 < -0.05, the magnitude of driveLeft for s1 is at most that for s2.
C4_MonotoneAll ==
    [][SameThrottleStep =>
        /\ (leftRight' < leftRight /\ leftRight < -(AxisDen \div 20))
              => Abs(driveLeft') <= Abs(driveLeft)
        /\ (leftRight < leftRight' /\ leftRight' < -(AxisDen \div 20))
              => Abs(driveLeft) <= Abs(driveLeft')]_vars

\* C4 amended: for a fixed non-zero throttle and steering values
\* -0.5 <= s1 < s2 < -0.05, the magnitude of driveLeft for s1 is at most
\* that for s2.
C4_MonotoneAboveHalf ==
    [][SameThrottleStep =>
        /\ (-(AxisDen \div 2) <= leftRight' /\ leftRight' < leftRight
              /\ leftRight < -(AxisDen \div 20))
              => Abs(driveLeft') <= Abs(driveLeft)
        /\ (-(AxisDen \div 2) <= leftRight /\ leftRight < leftRight'
              /\ leftRight' < -(AxisDen \div 20))
              => Abs(driveLeft) <= Abs(driveLeft')]_vars

\* an earlier frame with steering s2 is followed by a frame with the same
\* throttle and slow state and steering s1, -0.5 <= s1 < s2 < -0.05
C4_Witness ==
    /\ pc = "process"
    /\ ppmFrame # <<>>
    /\ Len(data) = FrameSize
    /\ upDown # 0
    /\ driveLeft # 0
    /\ leftRight < -(AxisDen \div 20)
    /\ LET frame == Unpack(data)
           lr == SteeringSpeed(frame, ReadLeftRight(frame))
       IN  /\ ReadUpDown(frame) = upDown
           /\ buttonPushed(frame, buttonSlow) = buttonPushed(ppmFrame, buttonSlow)
           /\ -(AxisDen \div 2) <= lr
           /\ lr < leftRight

\* C5: a payload that is neither query and is not 18 bytes long is dropped:
\* no motor write, no LED change, the loop goes on to the next receive.
C5_WrongLengthDropped ==
    [][(pc = "process" /\ Len(data) # FrameSize /\ exc' # "KeyboardInterrupt") =>
        /\ pc' = "recv"
        /\ UNCHANGED <<tbVars, ledBatteryMode>>]_vars

CleanupCalls == <<"MotorsOff", "SetCommsFailsafe", "SetLedShowBattery", "SetLeds">>

TornDown ==
    /\ pc = "exit"
    /\ finallyCalls = CleanupCalls
    /\ motor1 = 0
    /\ motor2 = 0
    /\ ~tbFailsafe
    /\ ~tbShowBattery
    /\ tbLeds = <<0, 0, 0>>

\* C6: an interrupt at any point of the loop leads to the cleanup sequence
\* MotorsOff, SetCommsFailsafe(False), SetLedShowBattery(False),
\* SetLeds(0,0,0), and after MotorsOff both motors stay at zero.
C6_Teardown ==
    /\ (exc = "KeyboardInterrupt") ~> TornDown
    /\ [](finallyCalls # <<>> => (motor1 = 0 /\ motor2 = 0))

\* interrupted between the two motor writes, with the left motor running
C6_Witness ==
    /\ TornDown
    /\ exc = "KeyboardInterrupt"
    /\ calls = <<"SetMotor1">>
    /\ driveLeft # 0

QuietReply(reply) ==
    /\ sent' = <<[payload |-> reply, to |-> <<addr[1], tx_port>>]>>
    /\ pc' = "recv"
    /\ calls' = <<>>
    /\ UNCHANGED <<tbVars, driveLeft, driveRight, ledBatteryMode>>

\* C7: b'?' is answered with exactly b"T=Diddyborg" and b'0' with exactly
\* b"1.0", sent to the sender's address on tx_port, with no motor write,
\* fault read or LED call in that iteration and the drive values and
\* ledBatteryMode unchanged; for any other payload nothing is sent.
C7_QueryBypass ==
    [][/\ (pc = "dispatch" /\ exc' = "none" /\ data = QueryId)
            => QuietReply(ReplyId)
       /\ (pc = "dispatch" /\ exc' = "none" /\ data = QueryVersion)
            => QuietReply(ReplyVersion)
       /\ (data' \notin {QueryId, QueryVersion}) => sent' = <<>>]_vars

\* the version query of the second sender answered while a fault is shown
C7_Witness ==
    /\ pc = "recv"
    /\ data = QueryVersion
    /\ addr = <<"192.168.4.3", 50001>>
    /\ sent = <<[payload |-> ReplyVersion, to |-> <<"192.168.4.3", tx_port>>]>>
    /\ ~ledBatteryMode
    /\ motor1 # 0

\* a control cycle has run to its end
CycleDone == pc = "recv" /\ hadEvent /\ exc = "none"

LedCalled == InCalls("SetLedShowBattery") \/ InCalls("SetLeds")

\* C8: an LED-mode change is made in a control cycle exactly when the fault
\* status differs from that of the previous control cycle (initially
\* Normal), and after every control cycle ledBatteryMode is true exactly
\* when the status is Normal.
C8_EdgeTriggered ==
    CycleDone =>
        /\ LedCalled <=> (status # prevStatus)
        /\ ledBatteryMode <=> (status = "Normal")

\* a second faulty cycle in a row
C8_Witness ==
    /\ CycleDone
    /\ status = "Fault"
    /\ prevStatus = "Fault"
    /\ ~LedCalled

\* the motor levels the control law gives for a frame
LawLeft(frame) ==
    SlowDown(frame, MixLeft(ReadUpDown(frame),
                            SteeringSpeed(frame, ReadLeftRight(frame)))) * maxPower
LawRight(frame) ==
    SlowDown(frame, MixRight(ReadUpDown(frame),
                             SteeringSpeed(frame, ReadLeftRight(frame)))) * maxPower

\* C9: after a cycle that reported a fault the loop keeps running, and the
\* next control frame gets its two motor writes, with the values of the
\* control law.
C9_FaultAdvisory ==
    /\ (status = "Fault" /\ exc = "none") => pc \in LoopPcs
    /\ (status = "Fault" /\ pc = "fault") =>
        /\ calls = <<"SetMotor1", "SetMotor2">>
        /\ motor1 = LawLeft(Unpack(data))
        /\ motor2 = LawRight(Unpack(data))

C9_Witness ==
    /\ status = "Fault"
    /\ ~ledBatteryMode
    /\ pc = "fault"
    /\ motor1 # 0
    /\ motor1 # motor2

Nominal(frame) ==
    /\ frame # <<>>
    /\ frame[1] \in 1000..2000
    /\ frame[2] \in 1000..2000

\* C10: for a control frame whose two axis channels lie in [1000, 2000],
\* whatever the buttons, both values written to the motors have magnitude
\* at most maxPower.
C10_NominalWithinLimit ==
    Nominal(ppmFrame) =>
        /\ InCalls("SetMotor1") => Abs(motor1) <= MotorLimit
        /\ InCalls("SetMotor2") => Abs(motor2) <= MotorLimit

\* full steering with fast turn: the right motor runs at -maxPower
C10_Witness ==
    /\ Nominal(ppmFrame)
    /\ pc = "fault"
    /\ leftRight = AxisDen
    /\ motor1 = MotorLimit
    /\ motor2 = -MotorLimit
====
